---- MODULE Spec2Model ----
(***************************************************************************)
(* Sandbox execution orchestrator of python_tester_backend/main.py:        *)
(* run_in_docker (single-file mode) and run_project_in_docker (project     *)
(* archive mode), one request at a time, with the container runtime and    *)
(* the filesystem as an environment whose calls may succeed or raise.      *)
(***************************************************************************)
EXTENDS Integers, Sequences, FiniteSets, TLC

(***************************************************************************)
(* Program constants                                                       *)
(***************************************************************************)
DOCKER_IMAGES ==
    [l \in {"python", "javascript", "java", "java-project"} |->
        CASE l = "python"       -> "python:3.11-slim"
          [] l = "javascript"   -> "node:20-slim"
          [] l = "java"         -> "eclipse-temurin:17-jdk"
          [] l = "java-project" -> "maven:3.9-eclipse-temurin-17"]

RUN_COMMANDS ==
    [l \in {"python", "javascript", "java"} |->
        CASE l = "python"     -> <<"python", "-m", "unittest", "test_code.py">>
          [] l = "javascript" -> <<"node", "test_code.js">>
          [] l = "java"       -> <<"sh", "-c", "javac TestRunner.java && java TestRunner">>]

SingleFileWaitTimeout == 300
ProjectWaitTimeout == 600
DefaultStatusCode == 1

(***************************************************************************)
(* Inputs of a request and outcomes of the environment                     *)
(***************************************************************************)
Modes == {"single", "project"}
Languages == {"python", "javascript", "java", "java-project", "ruby"}
ImageNames == {DOCKER_IMAGES[l] : l \in DOMAIN DOCKER_IMAGES}

\* root-level entries an uploaded archive may carry, per project language
JavaArchiveNames == {"pom.xml", "src/main/java"}
JavascriptArchiveNames == {"package.json", "index.html", "script.js"}
PythonArchiveNames == {"requirements.txt", "requirement.txt", "test_app.py", "tests/test_app.py"}
RequirementNames == {"requirements.txt", "requirement.txt"}
TestModuleNames == {"test_app.py", "app_test.py"}

ArchiveNamesOf(lang) ==
    CASE lang = "java"       -> JavaArchiveNames
      [] lang = "javascript" -> JavascriptArchiveNames
      [] lang = "python"     -> PythonArchiveNames
      [] OTHER               -> {}

\* seconds the sandboxed process needs before it exits
Durations == {10, 450, 700}
\* what the bounded wait reports: no StatusCode key, or a status
WaitResults == {<<>>, <<0>>, <<2>>}
LogTexts == {"OK", "FAILED (failures=1)"}

NoResult == [success |-> FALSE, summary |-> "", output |-> <<>>]
NoRaise == [kind |-> "", status_code |-> 0, detail |-> <<>>]

VARIABLES
    pc,               \* position of the request in its handler
    mode,             \* "single": run_in_docker, "project": run_project_in_docker
    language,         \* language identifier of the request
    archive,          \* root-level entries of the uploaded archive
    empty_files,      \* entries of the archive that are empty files
    test_code,        \* single-file mode: the test source of the request, a text
    image_name,       \* local image_name
    project_commands, \* local run_command / project_commands
    images,           \* images present in the runtime's local store
    temp_dir_exists,  \* the workspace directory exists on the filesystem
    files,            \* root-level entries of the workspace
    contents,         \* <<name, text>> of the regular files at the workspace root
    container,        \* local container: FALSE is None
    container_state,  \* "none", "running", "exited", "removed"
    duration,         \* seconds the launched process runs
    waited,           \* seconds spent blocked in container.wait
    exit_code,        \* <<>> until the wait returned, then <<code>>
    exc,              \* exception in flight inside the try block
    result,           \* the TestResult returned
    raised,           \* the exception raised out of the handler
    outcome,          \* "none", "returned", "raised"
    calls,            \* runtime and filesystem calls made by this request
    workspaces_created,  \* directories created by this request
    containers_launched, \* containers started by this request
    swallowed,        \* cleanup calls of this request whose error was ignored
    zip_error,        \* the exception caught around extractall, <<>> if none
    java_failed,      \* root-level .java files whose processing raised and was skipped
    java_tree,        \* files under src/main/java: directory, name, and origin
    source_code,      \* sanitize_java_code: the text given to the sanitizer
    sanitized,        \* sanitize_java_code: its output
    resanitized,      \* sanitize_java_code: its output on its own output
    sanitizer_pc,     \* "input", "once", "twice"
    clock,            \* worker processes: the reading of time.time()
    worker_dir,       \* worker processes: temp_dir of the request in flight, <<>> if idle
    tmp_dirs,         \* worker processes: directories under tempfile.gettempdir()
    retry_pc,         \* generate_with_retry: "idle", "post", "sleep", "returned", "raised"
    payload,          \* generate_with_retry: the payload posted
    attempt,          \* generate_with_retry: the loop variable
    delay,            \* generate_with_retry: seconds the next sleep takes
    sent,             \* generate_with_retry: outcome of each request sent, in order
    slept,            \* generate_with_retry: seconds of each sleep, in order
    response,         \* generate_with_retry: <<value returned>>, <<>> before
    error             \* generate_with_retry: <<exception raised>>, <<>> if none

vars == <<pc, mode, language, archive, empty_files, test_code, image_name, project_commands,
          images, temp_dir_exists, files, contents, container, container_state, duration,
          waited, exit_code, exc, result, raised, outcome, calls,
          workspaces_created, containers_launched, swallowed,
          zip_error, java_failed, java_tree,
          source_code, sanitized, resanitized, sanitizer_pc,
          clock, worker_dir, tmp_dirs,
          retry_pc, payload, attempt, delay, sent, slept, response, error>>

request_vars == <<mode, language, archive, empty_files, test_code>>
runtime_vars == <<images, container, container_state, duration, waited, exit_code,
                  containers_launched>>
fs_vars == <<temp_dir_exists, files, contents, workspaces_created>>
out_vars == <<result, raised, outcome>>
java_vars == <<java_failed, java_tree>>
sanitizer_vars == <<source_code, sanitized, resanitized, sanitizer_pc>>
worker_vars == <<clock, worker_dir, tmp_dirs>>
\* state of the pure-function and worker-process specifications
retry_vars == <<retry_pc, payload, attempt, delay, sent, slept, response, error>>
aux_vars == <<sanitizer_vars, worker_vars, retry_vars>>

TestResult(success, summary, output) ==
    [success |-> success, summary |-> summary, output |-> output]

HTTPException(status_code, detail) ==
    [kind |-> "HTTPException", status_code |-> status_code, detail |-> detail]

\* an exception that is not an HTTPException
PythonError(kind, detail) ==
    [kind |-> kind, status_code |-> 0, detail |-> detail]

\* generate_with_retry has not been called
RetryIdle ==
    /\ retry_pc = "idle"
    /\ payload = <<>>
    /\ attempt = 0
    /\ delay = 0
    /\ sent = <<>>
    /\ slept = <<>>
    /\ response = <<>>
    /\ error = <<>>

Init ==
    /\ pc = "idle"
    /\ mode = "single"
    /\ language = "python"
    /\ archive = {}
    /\ empty_files = {}
    /\ test_code = <<>>
    /\ image_name = ""
    /\ project_commands = <<>>
    /\ images \in SUBSET ImageNames
    /\ temp_dir_exists = FALSE
    /\ files = {}
    /\ contents = {}
    /\ container = FALSE
    /\ container_state = "none"
    /\ duration = 0
    /\ waited = 0
    /\ exit_code = <<>>
    /\ exc = <<>>
    /\ result = NoResult
    /\ raised = NoRaise
    /\ outcome = "none"
    /\ calls = <<>>
    /\ workspaces_created = 0
    /\ containers_launched = 0
    /\ swallowed = {}
    /\ zip_error = <<>>
    /\ java_failed = {}
    /\ java_tree = {}
    /\ source_code = <<>>
    /\ sanitized = <<>>
    /\ resanitized = <<>>
    /\ sanitizer_pc = "input"
    /\ clock = 0
    /\ worker_dir = <<>>
    /\ tmp_dirs = {}
    /\ RetryIdle


(***************************************************************************)
(* sanitize_java_code: a text is a sequence of tokens, "\n" among them; a  *)
(* line is a sequence of tokens without "\n"                               *)
(***************************************************************************)
MaxLines == 3

NL == "\n"
Whitespace == {" "}

\* the lines a source is drawn from
LineAlphabet ==
    { <<"import ", "a", ";">>,
      <<" ", "import ", "a", ";">>,
      <<"import ", "b", ";">>,
      <<"import ", "c", ";", " ", "// c">>,
      <<"package ", "p", ";">>,
      <<"class X {}">>,
      <<" ">>,
      <<>> }

\* the position of the first "\n" of a text, 0 if it has none
FirstNewline(text) ==
    IF \E i \in DOMAIN text : text[i] = NL
    THEN CHOOSE i \in DOMAIN text : text[i] = NL /\ \A j \in 1..(i - 1) : text[j] # NL
    ELSE 0

\* str.splitlines(): the text cut at each "\n"; no empty last line after a final "\n"
RECURSIVE SplitLines(_)
SplitLines(text) ==
    IF text = <<>> THEN <<>>
    ELSE IF FirstNewline(text) = 0 THEN <<text>>
    ELSE <<SubSeq(text, 1, FirstNewline(text) - 1)>>
            \o SplitLines(SubSeq(text, FirstNewline(text) + 1, Len(text)))

\* "\n".join(lines)
RECURSIVE Join(_)
Join(lines) ==
    IF lines = <<>> THEN <<>>
    ELSE IF Len(lines) = 1 THEN lines[1]
    ELSE lines[1] \o <<NL>> \o Join(Tail(lines))

\* str.strip()
RECURSIVE Strip(_)
Strip(line) ==
    IF line = <<>> THEN <<>>
    ELSE IF line[1] \in Whitespace THEN Strip(Tail(line))
    ELSE IF line[Len(line)] \in Whitespace THEN Strip(SubSeq(line, 1, Len(line) - 1))
    ELSE line

\* stripped.startswith("import ") and stripped.endswith(";")
IsImport(line) ==
    /\ Strip(line) # <<>>
    /\ Strip(line)[1] = "import "
    /\ Strip(line)[Len(Strip(line))] = ";"

\* stripped.startswith("package "), tested after the import test
IsPackage(line) ==
    /\ Strip(line) # <<>>
    /\ Strip(line)[1] = "package "

IsCodeBody(line) == ~IsImport(line) /\ ~IsPackage(line)

\* every occurrence but the last one is dropped
RECURSIVE Unique_KeepLast(_)
Unique_KeepLast(lines) ==
    IF lines = <<>> THEN <<>>
    ELSE IF \E i \in 2..Len(lines) : lines[i] = lines[1]
         THEN Unique_KeepLast(Tail(lines))
         ELSE <<lines[1]>> \o Unique_KeepLast(Tail(lines))

\* list(dict.fromkeys(imports)): every occurrence but the first one is dropped
RECURSIVE Unique(_)
Unique(lines) ==
    IF lines = <<>> THEN <<>>
    ELSE LET front == SubSeq(lines, 1, Len(lines) - 1)
             last == lines[Len(lines)]
         IN IF \E i \in DOMAIN front : front[i] = last
            THEN Unique(front)
            ELSE Unique(front) \o <<last>>

\* the output put together without the empty line between imports and body
Reassemble_NoSeparator(unique_imports, code_body) ==
    Join(unique_imports \o code_body)

\* "\n".join(unique_imports + [""] + code_body)
Reassemble(unique_imports, code_body) ==
    Join(unique_imports \o << <<>> >> \o code_body)

sanitize_java_code(text) ==
    Reassemble(Unique(SelectSeq(SplitLines(text), IsImport)),
               SelectSeq(SplitLines(text), IsCodeBody))

\* the sources given to the sanitizer: up to MaxLines lines joined by "\n"
Sources ==
    { Join(ls) : ls \in UNION { [1..n -> LineAlphabet] : n \in 0..MaxLines } }

\* the source submitted with a single-file request
user_code == <<"function add(a, b)">>

\* the test sources submitted with single-file requests
TestCodes ==
    { Join(<< <<"class X {}">>, <<"import ", "a", ";">>, <<"package ", "p", ";">> >>),
      Join(<< <<"import ", "b", ";">>, <<"class X {}">> >>) }

\* what the handlers write besides the request's own texts
UploadedArchive == <<"zip_file.file">>
smoke_test == <<"class TestProjectStructure(unittest.TestCase)">>
pkg_json == <<"{\"name\": \"frontend-test\", ...}">>
test_runner == <<"const fs = require('fs'); ...">>

\* the text of an archive member, as extractall writes it
ExtractedContents(entries) ==
    { <<name, <<"member of the archive", name>>>> : name \in entries \ {"src/main/java"} }

(***************************************************************************)
(* Request entry: language validation and selection of image and command   *)
(***************************************************************************)
\* the membership test made against a table without the java entry
SingleLanguageRejected_NoJava(lang) == lang \notin DOMAIN DOCKER_IMAGES \ {"java"}

\* run_in_docker: language not in DOCKER_IMAGES
SingleLanguageRejected(lang) == lang \notin DOMAIN DOCKER_IMAGES

\* run_in_docker: RUN_COMMANDS[language] raises KeyError
SingleRunCommandMissing(lang) == lang \notin DOMAIN RUN_COMMANDS

\* run_project_in_docker: the if/elif chain over language; <<>> is the else branch
ProjectConfig(lang) ==
    CASE lang = "javascript" ->
            <<[image_name |-> DOCKER_IMAGES["javascript"],
               project_commands |-> <<"npm install", "npm test">>,
               config_file |-> "package.json"]>>
      [] lang = "python" ->
            <<[image_name |-> DOCKER_IMAGES["python"],
               project_commands |-> <<"pip install pytest",
                     "if [ -f requirements.txt ]; then pip install -r requirements.txt; fi",
                     "pytest">>,
               config_file |-> "requirements.txt"]>>
      [] lang = "java" ->
            <<[image_name |-> DOCKER_IMAGES["java-project"],
               project_commands |-> <<"mvn test">>,
               config_file |-> "pom.xml"]>>
      [] OTHER -> <<>>

\* state shared by both entries: a fresh request, nothing allocated yet
FreshRequest ==
    /\ pc \in {"idle", "done"}
    /\ temp_dir_exists' = FALSE
    /\ files' = {}
    /\ contents' = {}
    /\ container' = FALSE
    /\ container_state' = "none"
    /\ duration' = 0
    /\ waited' = 0
    /\ exit_code' = <<>>
    /\ exc' = <<>>
    /\ result' = NoResult
    /\ calls' = <<>>
    /\ workspaces_created' = 0
    /\ containers_launched' = 0
    /\ swallowed' = {}
    /\ zip_error' = <<>>
    /\ java_failed' = {}
    /\ java_tree' = {}
    /\ UNCHANGED <<images, aux_vars>>

RunInDocker(lang) ==
    /\ FreshRequest
    /\ mode' = "single"
    /\ language' = lang
    /\ archive' = {}
    /\ empty_files' = {}
    /\ \E t \in TestCodes : test_code' = t
    /\ IF SingleLanguageRejected(lang)
       THEN /\ raised' = HTTPException(400, <<"Unsupported language">>)
            /\ outcome' = "raised"
            /\ pc' = "done"
            /\ image_name' = ""
            /\ project_commands' = <<>>
       ELSE IF SingleRunCommandMissing(lang)
       THEN /\ raised' = PythonError("KeyError", <<lang>>)
            /\ outcome' = "raised"
            /\ pc' = "done"
            /\ image_name' = DOCKER_IMAGES[lang]
            /\ project_commands' = <<>>
       ELSE /\ raised' = NoRaise
            /\ outcome' = "none"
            /\ pc' = "images_get"
            /\ image_name' = DOCKER_IMAGES[lang]
            /\ project_commands' = RUN_COMMANDS[lang]

RunProjectInDocker(lang, zip_entries, zip_empty) ==
    /\ FreshRequest
    /\ mode' = "project"
    /\ language' = lang
    /\ archive' = zip_entries
    /\ empty_files' = zip_empty
    /\ test_code' = <<>>
    /\ IF ProjectConfig(lang) = <<>>
       THEN /\ raised' = HTTPException(400, <<"Unsupported project language.">>)
            /\ outcome' = "raised"
            /\ pc' = "done"
            /\ image_name' = ""
            /\ project_commands' = <<>>
       ELSE /\ raised' = NoRaise
            /\ outcome' = "none"
            /\ pc' = "images_get"
            /\ image_name' = ProjectConfig(lang)[1].image_name
            /\ project_commands' = ProjectConfig(lang)[1].project_commands

(***************************************************************************)
(* Image resolution: client.images.get, then client.images.pull            *)
(***************************************************************************)
ErrorMessages == {"connection refused"}

\* the verdict returned after a successful pull
PullCompleteResult(m, lang, img) ==
    IF m = "single"
    THEN TestResult(FALSE, "Downloading Environment...",
            <<"The Docker image '", img, "' was not found. The download has completed. Please try running the test again.">>)
    ELSE TestResult(FALSE, "Downloading Environment...",
            <<"The ", lang, " project environment was not found. The download has completed. Please re-upload the project.">>)

\* the verdict of a failed pull without the error that caused it
PullFailedResult_NoError(m, img, pull_error) ==
    IF m = "single"
    THEN TestResult(FALSE, "Failed to Download Environment",
            <<"Failed to pull Docker image '", img, "'.">>)
    ELSE TestResult(FALSE, "Failed to Download Environment",
            <<"Failed to pull Docker image.">>)

\* the verdict returned after a failed pull
PullFailedResult(m, img, pull_error) ==
    IF m = "single"
    THEN TestResult(FALSE, "Failed to Download Environment",
            <<"Failed to pull Docker image '", img, "'. Error: ", pull_error>>)
    ELSE TestResult(FALSE, "Failed to Download Environment",
            <<"Failed to pull Docker image. Error: ", pull_error>>)

\* a failure of the presence query returned as a verdict
ImagesGet_ErrorAsVerdict ==
    /\ pc = "images_get"
    /\ calls' = Append(calls, "images.get")
    /\ \/ /\ image_name \in images
          /\ pc' = "mkdir"
          /\ UNCHANGED out_vars
       \/ /\ image_name \notin images
          /\ pc' = "images_pull"
          /\ UNCHANGED out_vars
       \/ \E e \in ErrorMessages :
            /\ result' = TestResult(FALSE, "Docker Execution Error", <<"Docker error: ", e>>)
            /\ outcome' = "returned"
            /\ raised' = raised
            /\ pc' = "done"
    /\ UNCHANGED <<aux_vars, zip_error, java_vars, request_vars, image_name, project_commands, runtime_vars, fs_vars, exc,
                   swallowed>>

\* client.images.get(image_name): found, ImageNotFound, or any other error
ImagesGet ==
    /\ pc = "images_get"
    /\ calls' = Append(calls, "images.get")
    /\ \/ /\ image_name \in images
          /\ pc' = "mkdir"
          /\ UNCHANGED out_vars
       \/ /\ image_name \notin images
          /\ pc' = "images_pull"
          /\ UNCHANGED out_vars
       \/ \E e \in ErrorMessages :
            /\ raised' = HTTPException(500, <<"Docker error: ", e>>)
            /\ outcome' = "raised"
            /\ result' = result
            /\ pc' = "done"
    /\ UNCHANGED <<aux_vars, zip_error, java_vars, request_vars, image_name, project_commands, runtime_vars, fs_vars, exc,
                   swallowed>>

\* after a successful pull the request goes on to stage and run
ImagesPull_ThenRun ==
    /\ pc = "images_pull"
    /\ calls' = Append(calls, "images.pull")
    /\ \/ /\ images' = images \cup {image_name}
          /\ result' = result
          /\ outcome' = outcome
          /\ pc' = "mkdir"
       \/ \E pull_error \in ErrorMessages :
            /\ images' = images
            /\ result' = PullFailedResult(mode, image_name, pull_error)
            /\ outcome' = "returned"
            /\ pc' = "done"
    /\ UNCHANGED <<aux_vars, zip_error, java_vars, request_vars, image_name, project_commands, container, container_state,
                   duration, waited, exit_code, containers_launched, fs_vars, exc, raised,
                   swallowed>>

ImagesPull ==
    /\ pc = "images_pull"
    /\ calls' = Append(calls, "images.pull")
    /\ \/ /\ images' = images \cup {image_name}
          /\ result' = PullCompleteResult(mode, language, image_name)
       \/ \E pull_error \in ErrorMessages :
            /\ images' = images
            /\ result' = PullFailedResult(mode, image_name, pull_error)
    /\ outcome' = "returned"
    /\ pc' = "done"
    /\ UNCHANGED <<aux_vars, zip_error, java_vars, request_vars, image_name, project_commands, container, container_state,
                   duration, waited, exit_code, containers_launched, fs_vars, exc, raised,
                   swallowed>>

(***************************************************************************)
(* Workspace creation: temp_dir.mkdir(parents=True, exist_ok=True)         *)
(***************************************************************************)
MakeTempDir ==
    /\ pc = "mkdir"
    /\ calls' = Append(calls, "mkdir")
    /\ \/ /\ temp_dir_exists' = TRUE
          /\ workspaces_created' = workspaces_created + 1
          /\ pc' = IF mode = "single" THEN "stage" ELSE "save_zip"
          /\ UNCHANGED out_vars
       \/ \E e \in {"no space left on device"} :
            /\ temp_dir_exists' = FALSE
            /\ workspaces_created' = workspaces_created
            /\ raised' = PythonError("OSError", <<e>>)
            /\ outcome' = "raised"
            /\ result' = result
            /\ pc' = "done"
    /\ UNCHANGED <<aux_vars, zip_error, java_vars, request_vars, image_name, project_commands, runtime_vars, files, contents, exc,
                   swallowed>>


(***************************************************************************)
(* Staging, single-file mode: the source and test files are written        *)
(***************************************************************************)
\* the files run_in_docker writes for a language
StagedFiles(lang) ==
    IF lang = "java"
    THEN {"TestRunner.java"}
    ELSE {IF lang = "python" THEN "user_code.py" ELSE "user_code.js",
          IF lang = "python" THEN "test_code.py" ELSE "test_code.js"}

\* the java test source written as submitted
StagedContents_Unsanitized(lang, test) ==
    IF lang = "java"
    THEN {<<"TestRunner.java", test>>}
    ELSE {<<IF lang = "python" THEN "user_code.py" ELSE "user_code.js", user_code>>,
          <<IF lang = "python" THEN "test_code.py" ELSE "test_code.js", test>>}

\* f.write(clean_code) for java; f.write(code) and f.write(test_code) otherwise
StagedContents(lang, test) ==
    IF lang = "java"
    THEN {<<"TestRunner.java", sanitize_java_code(test)>>}
    ELSE {<<IF lang = "python" THEN "user_code.py" ELSE "user_code.js", user_code>>,
          <<IF lang = "python" THEN "test_code.py" ELSE "test_code.js", test>>}

StageSingle ==
    /\ pc = "stage"
    /\ calls' = Append(calls, "write")
    /\ \/ /\ files' = files \cup StagedFiles(language)
          /\ contents' = contents \cup StagedContents(language, test_code)
          /\ exc' = exc
          /\ pc' = "containers_run"
       \/ \E e \in {"no space left on device"} :
            /\ files' = files
            /\ contents' = contents
            /\ exc' = <<e>>
            /\ pc' = "except"
    /\ UNCHANGED <<aux_vars, zip_error, java_vars, request_vars, image_name, project_commands, runtime_vars,
                   temp_dir_exists, workspaces_created, out_vars, swallowed>>

(***************************************************************************)
(* Staging, project mode: the archive is saved, then extracted             *)
(***************************************************************************)
SaveZip ==
    /\ pc = "save_zip"
    /\ calls' = Append(calls, "write")
    /\ \/ /\ files' = files \cup {"project.zip"}
          /\ contents' = contents \cup {<<"project.zip", UploadedArchive>>}
          /\ exc' = exc
          /\ pc' = "extract_zip"
       \/ \E e \in {"no space left on device"} :
            /\ files' = files
            /\ contents' = contents
            /\ exc' = <<"500: Failed to save zip file: ", e>>
            /\ pc' = "except"
    /\ UNCHANGED <<aux_vars, zip_error, java_vars, request_vars, image_name, project_commands, runtime_vars,
                   temp_dir_exists, workspaces_created, out_vars, swallowed>>

\* the extraction failure reported through the catch-all verdict
ZipErrorResult_AsExecutionError(e) ==
    TestResult(FALSE, "Docker Execution Error", <<"An unexpected error occurred: ", e>>)

\* except Exception as e: return TestResult(success=False, summary="ZIP Error", ...)
ZipErrorResult(e) ==
    TestResult(FALSE, "ZIP Error", <<"Invalid .zip file. Error: ", e>>)

ExtractZip ==
    /\ pc = "extract_zip"
    /\ calls' = Append(calls, "extractall")
    /\ \/ /\ files' = files \cup archive
          /\ contents' = contents \cup ExtractedContents(archive)
          /\ zip_error' = zip_error
          /\ result' = result
          /\ pc' = "normalize"
       \/ \E e \in {"File is not a zip file"} :
            /\ files' = files
            /\ contents' = contents
            /\ zip_error' = <<e>>
            /\ result' = ZipErrorResult(e)
            /\ pc' = "finally"
    /\ UNCHANGED <<aux_vars, java_vars, request_vars, image_name, project_commands, runtime_vars,
                   temp_dir_exists, workspaces_created, exc, raised, outcome, swallowed>>


(***************************************************************************)
(* Project normalizer, one branch per language                             *)
(***************************************************************************)
InvalidProjectResult(output) == TestResult(FALSE, "Invalid Project", output)

\* the descriptor is looked up under the name the source tree is looked up under
PomExists_SourceRoot(fs) == "src/main/java" \in fs

\* (temp_dir / "pom.xml").exists()
PomExists(fs) == "pom.xml" \in fs

\* the root-level .java files of the flat-layout archives: what the two
\* regular expressions find in each (<<>> is no match)
JavaSourceNames == {"Main.java", "App.java", "Util.java"}

JavaSource(name) ==
    CASE name = "Main.java" ->
            [stem |-> "Main", class_match |-> <<"Main">>, package_match |-> <<>>]
      [] name = "App.java" ->
            [stem |-> "App", class_match |-> <<"Main">>, package_match |-> <<>>]
      [] name = "Util.java" ->
            [stem |-> "Util", class_match |-> <<>>,
             package_match |-> <<"com", "acme", "util">>]

\* the items of temp_dir.iterdir() with item.name.endswith(".java")
RootJavaFiles(fs) == fs \cap JavaSourceNames

\* list(temp_dir.iterdir()): the items in an order the file system chooses
Orders(items) ==
    { order \in [1..Cardinality(items) -> items] :
        \A i \in DOMAIN order : \A j \in DOMAIN order : i # j => order[i] # order[j] }

\* the file keeps the name it has in the archive
TargetFilename_ItemName(item) == <<JavaSource(item).stem, ".java">>

\* target_filename: item.name, or f"{detected_class}.java" when the stem differs
TargetFilename(item) ==
    IF /\ JavaSource(item).class_match # <<>>
       /\ JavaSource(item).stem # JavaSource(item).class_match[1]
    THEN <<JavaSource(item).class_match[1], ".java">>
    ELSE <<JavaSource(item).stem, ".java">>

\* src_main / package_path, or src_main when no package line matches
TargetDir(item) == <<"src", "main", "java">> \o JavaSource(item).package_match

\* shutil.move(str(item), str(target_dir / target_filename)): a file already
\* at the target path is replaced
MoveItem(tree, item) ==
    { t \in tree : ~(t.dir = TargetDir(item) /\ t.name = TargetFilename(item)) }
        \cup {[dir |-> TargetDir(item), name |-> TargetFilename(item), origin |-> item]}

\* the loop over the items: an item whose processing raises is printed and skipped
RECURSIVE RepairFlat(_, _, _)
RepairFlat(order, failed, tree) ==
    IF order = <<>> THEN tree
    ELSE RepairFlat(Tail(order), failed,
                    IF Head(order) \in failed THEN tree ELSE MoveItem(tree, Head(order)))

NormalizeJava ==
    /\ pc = "normalize"
    /\ language = "java"
    /\ IF ~PomExists(files)
       THEN /\ result' = InvalidProjectResult(<<"No 'pom.xml' found. Please include a pom.xml file.">>)
            /\ files' = files
            /\ contents' = contents
            /\ exc' = exc
            /\ calls' = calls
            /\ UNCHANGED java_vars
            /\ pc' = "finally"
       ELSE IF "src/main/java" \notin files
       THEN \* flat structure: src_main.mkdir(parents=True, exist_ok=True)
            /\ result' = result
            /\ calls' = Append(calls, "mkdir")
            /\ \/ \E order \in Orders(RootJavaFiles(files)) :
                  \E failed \in SUBSET RootJavaFiles(files) :
                     /\ java_failed' = failed
                     /\ java_tree' = RepairFlat(order, failed, {})
                     /\ files' = (files \ (RootJavaFiles(files) \ failed)) \cup {"src/main/java"}
                     /\ contents' = {c \in contents : c[1] \notin RootJavaFiles(files) \ failed}
                     /\ exc' = exc
                     /\ pc' = "containers_run"
               \/ \E e \in {"no space left on device"} :
                    /\ files' = files
                    /\ contents' = contents
                    /\ exc' = <<e>>
                    /\ UNCHANGED java_vars
                    /\ pc' = "except"
       ELSE /\ result' = result
            /\ files' = files
            /\ contents' = contents
            /\ exc' = exc
            /\ calls' = calls
            /\ UNCHANGED java_vars
            /\ pc' = "containers_run"
    /\ UNCHANGED <<aux_vars, zip_error, request_vars, image_name, project_commands, runtime_vars,
                   temp_dir_exists, workspaces_created, raised, outcome, swallowed>>

\* the two accepted names looked up in the other order
PythonReqFile_SingularFirst(fs) ==
    IF "requirement.txt" \in fs THEN <<"requirement.txt">>
    ELSE IF "requirements.txt" \in fs THEN <<"requirements.txt">>
    ELSE <<>>

\* req_file: the first of the two accepted names that exists, <<>> is None
PythonReqFile(fs) ==
    IF "requirements.txt" \in fs THEN <<"requirements.txt">>
    ELSE IF "requirement.txt" \in fs THEN <<"requirement.txt">>
    ELSE <<>>

\* install_cmd: set when req_file exists with st_size > 0
PythonInstallCmd(fs, empties) ==
    IF PythonReqFile(fs) # <<>> /\ PythonReqFile(fs)[1] \notin empties
    THEN <<"pip install -r " , PythonReqFile(fs)[1]>>
    ELSE <<>>

\* glob("test_*.py") + glob("*_test.py")
PythonTestFiles(fs) == fs \cap TestModuleNames

PythonProjectCommands(fs, empties) ==
    IF PythonTestFiles(fs) = {}
    THEN <<"pip install pytest">> \o PythonInstallCmd(fs, empties) \o <<"pytest test_smoke_generated.py">>
    ELSE <<"pip install pytest">> \o PythonInstallCmd(fs, empties) \o <<"pytest">>

NormalizePython ==
    /\ pc = "normalize"
    /\ language = "python"
    /\ calls' = IF PythonTestFiles(files) = {} THEN Append(calls, "write") ELSE calls
    /\ IF PythonTestFiles(files) = {}
       THEN \/ /\ files' = files \cup {"test_smoke_generated.py"}
               /\ contents' = contents \cup {<<"test_smoke_generated.py", smoke_test>>}
               /\ project_commands' = PythonProjectCommands(files, empty_files)
               /\ exc' = exc
               /\ pc' = "containers_run"
            \/ \E e \in {"no space left on device"} :
                 /\ files' = files
                 /\ contents' = contents
                 /\ project_commands' = project_commands
                 /\ exc' = <<e>>
                 /\ pc' = "except"
       ELSE /\ files' = files
            /\ contents' = contents
            /\ project_commands' = PythonProjectCommands(files, empty_files)
            /\ exc' = exc
            /\ pc' = "containers_run"
    /\ UNCHANGED <<aux_vars, zip_error, java_vars, request_vars, image_name, runtime_vars, temp_dir_exists,
                   workspaces_created, out_vars, swallowed>>

\* the HTML entry point alone taken for a front-end project
IsFrontendProject_IndexOnly(fs) == "index.html" \in fs

\* is_frontend_project
IsFrontendProject(fs) == "index.html" \in fs /\ "script.js" \in fs

NormalizeJavascript ==
    /\ pc = "normalize"
    /\ language = "javascript"
    /\ calls' = IF IsFrontendProject(files) /\ "package.json" \notin files
                THEN Append(calls, "write") ELSE calls
    /\ IF IsFrontendProject(files) /\ "package.json" \notin files
       THEN \/ /\ files' = files \cup {"package.json", "test_runner.js"}
               /\ contents' = contents \cup {<<"package.json", pkg_json>>, <<"test_runner.js", test_runner>>}
               /\ exc' = exc
               /\ pc' = "containers_run"
            \/ \E e \in {"no space left on device"} :
                 /\ \E written \in {{}, {"package.json"}} :
                       /\ files' = files \cup written
                       /\ contents' = contents \cup {<<name, pkg_json>> : name \in written}
                 /\ exc' = <<e>>
                 /\ pc' = "except"
       ELSE IF "package.json" \notin files
       THEN \* output=error_msg: the name error_msg is bound nowhere
            /\ files' = files
            /\ contents' = contents
            /\ exc' = <<"name 'error_msg' is not defined">>
            /\ pc' = "except"
       ELSE /\ files' = files
            /\ contents' = contents
            /\ exc' = exc
            /\ pc' = "containers_run"
    /\ UNCHANGED <<aux_vars, zip_error, java_vars, request_vars, image_name, project_commands, runtime_vars,
                   temp_dir_exists, workspaces_created, out_vars, swallowed>>


(***************************************************************************)
(* Sandbox executor: launch, bounded wait, log retrieval, classification   *)
(***************************************************************************)
ContainersRun ==
    /\ pc = "containers_run"
    /\ calls' = Append(calls, "containers.run")
    /\ \/ \E d \in Durations :
            /\ container' = TRUE
            /\ container_state' = "running"
            /\ containers_launched' = containers_launched + 1
            /\ duration' = d
            /\ exc' = exc
            /\ pc' = "wait"
       \/ \E e \in ErrorMessages :
            /\ container' = container
            /\ container_state' = container_state
            /\ containers_launched' = containers_launched
            /\ duration' = duration
            /\ exc' = <<e>>
            /\ pc' = "except"
    /\ UNCHANGED <<aux_vars, zip_error, java_vars, request_vars, image_name, project_commands, images, waited, exit_code,
                   fs_vars, out_vars, swallowed>>

\* container.wait(timeout=...)
WaitTimeout(m) == IF m = "single" THEN SingleFileWaitTimeout ELSE ProjectWaitTimeout

\* result.get("StatusCode", 1)
StatusCodeOf(wait_result) ==
    IF wait_result = <<>> THEN DefaultStatusCode ELSE wait_result[1]

\* the verdict returned from the except clause around container.wait
TimedOutResult(m) ==
    IF m = "single"
    THEN TestResult(FALSE, "Code execution timed out (5 minutes).",
            <<"Timeout: The test run exceeded the 5-minute limit.">>)
    ELSE TestResult(FALSE, "Project execution timed out (10 minutes).",
            <<"Timeout: The project run exceeded the 10-minute limit.">>)

ContainerWait ==
    /\ pc = "wait"
    /\ calls' = Append(calls, "wait")
    /\ \/ \* the process exits within the bound
          /\ duration <= WaitTimeout(mode)
          /\ \E wait_result \in WaitResults :
                exit_code' = <<StatusCodeOf(wait_result)>>
          /\ container_state' = "exited"
          /\ waited' = duration
          /\ result' = result
          /\ pc' = "logs"
       \/ \* the bound is exceeded: the read times out
          /\ duration > WaitTimeout(mode)
          /\ exit_code' = exit_code
          /\ container_state' = container_state
          /\ waited' = WaitTimeout(mode)
          /\ result' = TimedOutResult(mode)
          /\ pc' = "finally"
       \/ \* the call fails before the bound, for any other reason
          /\ exit_code' = exit_code
          /\ container_state' \in {container_state, "exited"}
          /\ waited' = 0
          /\ result' = TimedOutResult(mode)
          /\ pc' = "finally"
    /\ UNCHANGED <<aux_vars, zip_error, java_vars, request_vars, image_name, project_commands, images, container, duration,
                   containers_launched, fs_vars, exc, raised, outcome, swallowed>>

\* the verdict taken from the log text instead of the exit status
ClassifyResult_FromLog(m, code, logs) ==
    IF code = 0 \/ logs = "OK"
    THEN TestResult(TRUE,
            IF m = "single" THEN "All tests passed!" ELSE "All project tests passed!",
            <<logs>>)
    ELSE TestResult(FALSE,
            IF m = "single" THEN "Tests Failed or Code Error" ELSE "Project Tests Failed",
            <<logs>>)

\* the if/else over exit_code
ClassifyResult(m, code, logs) ==
    IF code = 0
    THEN TestResult(TRUE,
            IF m = "single" THEN "All tests passed!" ELSE "All project tests passed!",
            <<logs>>)
    ELSE TestResult(FALSE,
            IF m = "single" THEN "Tests Failed or Code Error" ELSE "Project Tests Failed",
            <<logs>>)

\* container.logs(stdout=True, stderr=True).decode('utf-8')
ContainerLogs ==
    /\ pc = "logs"
    /\ calls' = Append(calls, "logs")
    /\ \/ \E logs \in LogTexts :
            /\ result' = ClassifyResult(mode, exit_code[1], logs)
            /\ exc' = exc
            /\ pc' = "finally"
       \/ \E e \in ErrorMessages \cup {"'utf-8' codec can't decode byte 0xff"} :
            /\ result' = result
            /\ exc' = <<e>>
            /\ pc' = "except"
    /\ UNCHANGED <<aux_vars, zip_error, java_vars, request_vars, image_name, project_commands, runtime_vars, fs_vars,
                   raised, outcome, swallowed>>

(***************************************************************************)
(* except Exception / finally                                              *)
(***************************************************************************)
\* the verdict built without the text of the exception
ExecutionErrorResult_NoMessage(e) ==
    TestResult(FALSE, "Docker Execution Error", <<"An unexpected error occurred: ">>)

\* except Exception as e: return TestResult(...)
ExecutionErrorResult(e) ==
    TestResult(FALSE, "Docker Execution Error", <<"An unexpected error occurred: ">> \o e)

\* the handler returns its verdict at once, the finally block left out
ExceptHandler_WithoutFinally ==
    /\ pc = "except"
    /\ result' = ExecutionErrorResult(exc)
    /\ outcome' = "returned"
    /\ pc' = "done"
    /\ UNCHANGED <<aux_vars, zip_error, java_vars, request_vars, image_name, project_commands, runtime_vars, fs_vars,
                   exc, raised, calls, swallowed>>

\* except Exception as e: return TestResult(...), which runs the finally block
ExceptHandler ==
    /\ pc = "except"
    /\ result' = ExecutionErrorResult(exc)
    /\ pc' = "finally"
    /\ UNCHANGED <<aux_vars, zip_error, java_vars, request_vars, image_name, project_commands, runtime_vars, fs_vars,
                   exc, raised, outcome, calls, swallowed>>

\* the container is cleaned up only when the wait returned: the timeout
\* return leaves without stopping it
FinallyContainer_AfterWaitOnly ==
    /\ pc = "finally"
    /\ IF container /\ exit_code # <<>>
       THEN \/ /\ container_state' = container_state
               /\ calls' = Append(calls, "stop")
               /\ swallowed' = swallowed \cup {"stop"}
            \/ /\ container_state' = "removed"
               /\ calls' = calls \o <<"stop", "remove">>
               /\ swallowed' = swallowed
            \/ /\ container_state' = "exited"
               /\ calls' = calls \o <<"stop", "remove">>
               /\ swallowed' = swallowed \cup {"remove"}
       ELSE /\ container_state' = container_state
            /\ calls' = calls
            /\ swallowed' = swallowed
    /\ pc' = "finally_rmtree"
    /\ UNCHANGED <<aux_vars, zip_error, java_vars, request_vars, image_name, project_commands, images, container, duration,
                   waited, exit_code, containers_launched, fs_vars, exc, out_vars>>

\* if container: try: container.stop(timeout=1); container.remove(v=True, force=True)
\*               except: pass
FinallyContainer ==
    /\ pc = "finally"
    /\ IF container
       THEN \/ \* stop raises: remove is skipped
               /\ container_state' = container_state
               /\ calls' = Append(calls, "stop")
               /\ swallowed' = swallowed \cup {"stop"}
            \/ \* stop returns, remove returns
               /\ container_state' = "removed"
               /\ calls' = calls \o <<"stop", "remove">>
               /\ swallowed' = swallowed
            \/ \* stop returns, remove raises
               /\ container_state' = "exited"
               /\ calls' = calls \o <<"stop", "remove">>
               /\ swallowed' = swallowed \cup {"remove"}
       ELSE /\ container_state' = container_state
            /\ calls' = calls
            /\ swallowed' = swallowed
    /\ pc' = "finally_rmtree"
    /\ UNCHANGED <<aux_vars, zip_error, java_vars, request_vars, image_name, project_commands, images, container, duration,
                   waited, exit_code, containers_launched, fs_vars, exc, out_vars>>

\* the workspace is deleted only after the try block ran to its end: an
\* exception on the way skips the delete
FinallyRmtree_AfterTryOnly ==
    /\ pc = "finally_rmtree"
    /\ IF temp_dir_exists /\ exc = <<>>
       THEN /\ calls' = Append(calls, "rmtree")
            /\ \/ /\ temp_dir_exists' = FALSE
                  /\ files' = {}
                  /\ contents' = {}
                  /\ swallowed' = swallowed
               \/ /\ temp_dir_exists' = TRUE
                  /\ files' = files
                  /\ contents' = contents
                  /\ swallowed' = swallowed \cup {"rmtree"}
       ELSE /\ calls' = calls
            /\ swallowed' = swallowed
            /\ UNCHANGED <<temp_dir_exists, files, contents>>
    /\ workspaces_created' = workspaces_created
    /\ outcome' = "returned"
    /\ pc' = "done"
    /\ UNCHANGED <<aux_vars, zip_error, java_vars, request_vars, image_name, project_commands, runtime_vars, exc,
                   result, raised>>

\* if temp_dir.exists(): shutil.rmtree(temp_dir, ignore_errors=True)
FinallyRmtree ==
    /\ pc = "finally_rmtree"
    /\ IF temp_dir_exists
       THEN /\ calls' = Append(calls, "rmtree")
            /\ \/ /\ temp_dir_exists' = FALSE
                  /\ files' = {}
                  /\ contents' = {}
                  /\ swallowed' = swallowed
               \/ \* errors are ignored: the tree is left behind
                  /\ temp_dir_exists' = TRUE
                  /\ files' = files
                  /\ contents' = contents
                  /\ swallowed' = swallowed \cup {"rmtree"}
       ELSE /\ calls' = calls
            /\ swallowed' = swallowed
            /\ UNCHANGED <<temp_dir_exists, files, contents>>
    /\ workspaces_created' = workspaces_created
    /\ outcome' = "returned"
    /\ pc' = "done"
    /\ UNCHANGED <<aux_vars, zip_error, java_vars, request_vars, image_name, project_commands, runtime_vars, exc,
                   result, raised>>

Next ==
    \/ \E lang \in Languages : RunInDocker(lang)
    \/ \E lang \in Languages :
         \E zip_entries \in SUBSET ArchiveNamesOf(lang) :
           \E zip_empty \in SUBSET (zip_entries \cap RequirementNames) :
             RunProjectInDocker(lang, zip_entries, zip_empty)
    \/ ImagesGet
    \/ ImagesPull
    \/ MakeTempDir
    \/ StageSingle
    \/ SaveZip
    \/ ExtractZip
    \/ NormalizeJava
    \/ NormalizePython
    \/ NormalizeJavascript
    \/ ContainersRun
    \/ ContainerWait
    \/ ContainerLogs
    \/ ExceptHandler
    \/ FinallyContainer
    \/ FinallyRmtree

Spec == Init /\ [][Next]_vars


(***************************************************************************)
(* Specification of sanitize_java_code applied once and twice               *)
(***************************************************************************)
\* every variable of the request handlers at rest
HandlersIdle ==
    /\ pc = "idle"
    /\ mode = "single"
    /\ language = "python"
    /\ archive = {}
    /\ empty_files = {}
    /\ test_code = <<>>
    /\ image_name = ""
    /\ project_commands = <<>>
    /\ temp_dir_exists = FALSE
    /\ files = {}
    /\ contents = {}
    /\ container = FALSE
    /\ container_state = "none"
    /\ duration = 0
    /\ waited = 0
    /\ exit_code = <<>>
    /\ exc = <<>>
    /\ result = NoResult
    /\ raised = NoRaise
    /\ outcome = "none"
    /\ calls = <<>>
    /\ workspaces_created = 0
    /\ containers_launched = 0
    /\ swallowed = {}
    /\ zip_error = <<>>
    /\ java_failed = {}
    /\ java_tree = {}

handler_vars == <<pc, mode, language, archive, empty_files, test_code, image_name, project_commands,
                  images, temp_dir_exists, files, contents, container, container_state, duration,
                  waited, exit_code, exc, result, raised, outcome, calls,
                  workspaces_created, containers_launched, swallowed,
                  zip_error, java_failed, java_tree>>

InitSanitizer ==
    /\ HandlersIdle
    /\ images = {}
    /\ source_code \in Sources
    /\ sanitized = <<>>
    /\ resanitized = <<>>
    /\ sanitizer_pc = "input"
    /\ clock = 0
    /\ worker_dir = <<>>
    /\ tmp_dirs = {}
    /\ RetryIdle

\* clean_code = sanitize_java_code(test_code)
Sanitize ==
    /\ sanitizer_pc = "input"
    /\ sanitized' = sanitize_java_code(source_code)
    /\ sanitizer_pc' = "once"
    /\ UNCHANGED <<source_code, resanitized, handler_vars, worker_vars, retry_vars>>

\* the sanitizer applied to its own output
SanitizeAgain ==
    /\ sanitizer_pc = "once"
    /\ resanitized' = sanitize_java_code(sanitized)
    /\ sanitizer_pc' = "twice"
    /\ UNCHANGED <<source_code, sanitized, handler_vars, worker_vars, retry_vars>>

NextSanitizer ==
    \/ Sanitize
    \/ SanitizeAgain

SpecSanitizer == InitSanitizer /\ [][NextSanitizer]_vars

(***************************************************************************)
(* Java project requests with a flat layout: pom.xml and .java files at    *)
(* the archive root, the Maven image present                               *)
(***************************************************************************)
FlatJavaArchives == { {"pom.xml"} \cup sources : sources \in SUBSET JavaSourceNames }

InitJavaRepair ==
    /\ HandlersIdle
    /\ images = {DOCKER_IMAGES["java-project"]}
    /\ source_code = <<>>
    /\ sanitized = <<>>
    /\ resanitized = <<>>
    /\ sanitizer_pc = "input"
    /\ clock = 0
    /\ worker_dir = <<>>
    /\ tmp_dirs = {}
    /\ RetryIdle

JavaFlatRequest ==
    \E zip_entries \in FlatJavaArchives : RunProjectInDocker("java", zip_entries, {})

NextJavaRepair ==
    \/ JavaFlatRequest
    \/ ImagesGet
    \/ MakeTempDir
    \/ SaveZip
    \/ ExtractZip
    \/ NormalizeJava
    \/ ContainersRun
    \/ ContainerWait
    \/ ContainerLogs
    \/ ExceptHandler
    \/ FinallyContainer
    \/ FinallyRmtree

SpecJavaRepair == InitJavaRepair /\ [][NextJavaRepair]_vars

(***************************************************************************)
(* Worker processes: each serves one request at a time (the async          *)
(* endpoints call the blocking handlers directly), all share one clock     *)
(* and one temporary directory                                             *)
(***************************************************************************)
MaxClock == 1

Pids == {"pid 1", "pid 2"}

\* pathlib.Path(tempfile.gettempdir()) / f"codetester_{pid}_{time}"
WorkspaceName_NoPid(m, pid, time) ==
    <<IF m = "single" THEN "codetester_" ELSE "codetester_proj_", time>>

\* f"codetester_{os.getpid()}_{time.time()}", f"codetester_proj_{os.getpid()}_{time.time()}"
WorkspaceName(m, pid, time) ==
    <<IF m = "single" THEN "codetester_" ELSE "codetester_proj_", pid, time>>

InitWorkers ==
    /\ HandlersIdle
    /\ images = {}
    /\ source_code = <<>>
    /\ sanitized = <<>>
    /\ resanitized = <<>>
    /\ sanitizer_pc = "input"
    /\ clock = 0
    /\ worker_dir = [p \in Pids |-> <<>>]
    /\ tmp_dirs = {}
    /\ RetryIdle

\* time.time() returns another value: the clock advances, or is set back
ClockStep ==
    /\ \E t \in 0..MaxClock : t # clock /\ clock' = t
    /\ UNCHANGED <<worker_dir, tmp_dirs, handler_vars, sanitizer_vars, retry_vars>>

\* an idle process takes a request: temp_dir.mkdir(parents=True, exist_ok=True)
WorkerBegin(p, m) ==
    /\ worker_dir[p] = <<>>
    /\ worker_dir' = [worker_dir EXCEPT ![p] = WorkspaceName(m, p, clock)]
    /\ tmp_dirs' = tmp_dirs \cup {WorkspaceName(m, p, clock)}
    /\ UNCHANGED <<clock, handler_vars, sanitizer_vars, retry_vars>>

\* the request ends: shutil.rmtree(temp_dir, ignore_errors=True)
WorkerEnd(p) ==
    /\ worker_dir[p] # <<>>
    /\ worker_dir' = [worker_dir EXCEPT ![p] = <<>>]
    /\ \/ tmp_dirs' = tmp_dirs \ {worker_dir[p]}
       \/ tmp_dirs' = tmp_dirs
    /\ UNCHANGED <<clock, handler_vars, sanitizer_vars, retry_vars>>

NextWorkers ==
    \/ ClockStep
    \/ \E p \in Pids : \E m \in Modes : WorkerBegin(p, m)
    \/ \E p \in Pids : WorkerEnd(p)

SpecWorkers == InitWorkers /\ [][NextWorkers]_vars

(***************************************************************************)
(* generate_with_retry (test_case_generator): the request to the model     *)
(* API, retried on transport and HTTP-status errors                        *)
(***************************************************************************)
max_retries == 3

\* the payloads built by chat(), one per system prompt
Payloads == {"PYTHON_SYSTEM_PROMPT", "JAVASCRIPT_SYSTEM_PROMPT", "JAVA_SYSTEM_PROMPT"}

\* what one client.post / raise_for_status / response.json() can come to
PostOutcomes ==
    { [kind |-> "ok", detail |-> "candidates"],
      [kind |-> "RequestError", detail |-> "ConnectTimeout"],
      [kind |-> "HTTPStatusError", detail |-> "429"],
      [kind |-> "HTTPStatusError", detail |-> "503"],
      [kind |-> "JSONDecodeError", detail |-> "response.json()"] }

\* except (httpx.RequestError, httpx.HTTPStatusError)
Caught(posted) == posted.kind \in {"RequestError", "HTTPStatusError"}

\* the delay is kept as it is
NextDelay_Constant(d) == d

\* delay *= 2
NextDelay(d) == d * 2

InitRetry ==
    /\ HandlersIdle
    /\ images = {}
    /\ source_code = <<>>
    /\ sanitized = <<>>
    /\ resanitized = <<>>
    /\ sanitizer_pc = "input"
    /\ clock = 0
    /\ worker_dir = <<>>
    /\ tmp_dirs = {}
    /\ RetryIdle

\* the call: max_retries = 3, delay = 1, the first iteration of the loop
GenerateWithRetry ==
    /\ retry_pc = "idle"
    /\ \E p \in Payloads : payload' = p
    /\ attempt' = 0
    /\ delay' = 1
    /\ retry_pc' = IF 0 < max_retries THEN "post" ELSE "returned"
    /\ UNCHANGED <<sent, slept, response, error, handler_vars, sanitizer_vars, worker_vars>>

\* the body of the try block and its except clause
Post ==
    /\ retry_pc = "post"
    /\ \E posted \in PostOutcomes :
         /\ sent' = Append(sent, posted)
         /\ IF posted.kind = "ok"
            THEN /\ response' = <<posted.detail>>
                 /\ error' = error
                 /\ retry_pc' = "returned"
            ELSE IF ~Caught(posted) \/ attempt = max_retries - 1
            THEN /\ response' = response
                 /\ error' = <<posted>>
                 /\ retry_pc' = "raised"
            ELSE /\ response' = response
                 /\ error' = error
                 /\ retry_pc' = "sleep"
    /\ UNCHANGED <<payload, attempt, delay, slept, handler_vars, sanitizer_vars, worker_vars>>

\* await asyncio.sleep(delay); delay *= 2; then the next iteration, or the
\* end of the loop and of the function
Sleep ==
    /\ retry_pc = "sleep"
    /\ slept' = Append(slept, delay)
    /\ delay' = NextDelay(delay)
    /\ attempt' = attempt + 1
    /\ retry_pc' = IF attempt + 1 < max_retries THEN "post" ELSE "returned"
    /\ UNCHANGED <<payload, sent, response, error, handler_vars, sanitizer_vars, worker_vars>>

NextRetry ==
    \/ GenerateWithRetry
    \/ Post
    \/ Sleep

SpecRetry == InitRetry /\ [][NextRetry]_vars

(***************************************************************************)
(* Verdict categories of the returned TestResult: each summary string the  *)
(* two handlers return, under the category it reports                      *)
(***************************************************************************)
Verdict(r) ==
    CASE r.summary \in {"All tests passed!", "All project tests passed!"} -> "Success"
      [] r.summary \in {"Tests Failed or Code Error", "Project Tests Failed"} -> "Failed"
      [] r.summary \in {"Code execution timed out (5 minutes).",
                        "Project execution timed out (10 minutes)."} -> "TimedOut"
      [] r.summary = "Downloading Environment..." -> "ImagePulling"
      [] r.summary \in {"Invalid Project", "ZIP Error"} -> "InvalidProject"
      [] r.summary \in {"Failed to Download Environment",
                        "Docker Execution Error"} -> "InfrastructureError"
      [] OTHER -> "None"

Count(call) == Cardinality({i \in DOMAIN calls : calls[i] = call})

Returned == pc = "done" /\ outcome = "returned"

\* the archive was extracted into the workspace
Extracted == Count("extractall") = 1 /\ result.summary # "ZIP Error"


(***************************************************************************)
(* C1                                                                      *)
(***************************************************************************)
\* C1 (as stated): when a request returns, under whatever verdict and also
\* when the container stop/remove step failed, the workspace directory
\* created for it no longer exists.
C1_WorkspaceAbsentAtReturn ==
    pc = "done" => ~temp_dir_exists

\* C1 (amended): once the workspace was created, the recursive delete is
\* attempted exactly once, as the last call before the request returns, under
\* every verdict and also when the container stop/remove step failed; at
\* return the workspace still exists exactly when that delete failed.
C1_WorkspaceDeleteAttempted ==
    (pc = "done" /\ workspaces_created = 1) =>
        /\ outcome = "returned"
        /\ Count("rmtree") = 1
        /\ calls[Len(calls)] = "rmtree"
        /\ (temp_dir_exists <=> "rmtree" \in swallowed)

\* a request whose container stop failed and whose workspace is gone at return
C1_Witness ==
    /\ pc = "done"
    /\ workspaces_created = 1
    /\ "stop" \in swallowed
    /\ Verdict(result) = "Success"
    /\ ~temp_dir_exists

(***************************************************************************)
(* C2                                                                      *)
(***************************************************************************)
\* C2: for every request in which a container was launched, on every exit
\* path and also when the forced stop reports an error, the container is
\* neither running nor present as a stopped container when the request
\* returns.
C2_ContainerAbsentAtReturn ==
    (pc = "done" /\ containers_launched > 0) => container_state = "removed"


(***************************************************************************)
(* C3                                                                      *)
(***************************************************************************)
\* C3 (as stated): for every accepted submission, whichever verdict is
\* returned (ImagePulling and a failed image fetch included), exactly one
\* workspace directory was created and at most one container launched, and
\* both are destroyed before the result is returned.
C3_OneWorkspaceBothDestroyed ==
    Returned =>
        /\ workspaces_created = 1
        /\ containers_launched <= 1
        /\ ~temp_dir_exists
        /\ container_state \in {"none", "removed"}

\* C3 (amended): for every accepted submission that returns a result, at
\* most one workspace and at most one container are created; a workspace is
\* created exactly when the image was found present (none under
\* ImagePulling or a failed fetch, and then no container either); before the
\* result is returned the delete of a created workspace and the stop of a
\* launched container have each been attempted exactly once, and whatever
\* is left behind is left by a cleanup call whose error was ignored.
C3_AtMostOneEachCleanupAttempted ==
    Returned =>
        /\ workspaces_created <= 1
        /\ containers_launched <= 1
        /\ (workspaces_created = 1 <=> Count("images.pull") = 0)
        /\ (Count("images.pull") > 0 => containers_launched = 0)
        /\ (Verdict(result) = "ImagePulling" => workspaces_created = 0)
        /\ (workspaces_created = 1 =>
                /\ Count("rmtree") = 1
                /\ (temp_dir_exists => "rmtree" \in swallowed))
        /\ (containers_launched = 1 =>
                /\ Count("stop") = 1
                /\ (container_state # "removed" => swallowed \cap {"stop", "remove"} # {}))

\* a timed-out request: one workspace, one container, both gone at return
C3_Witness ==
    /\ Returned
    /\ Verdict(result) = "TimedOut"
    /\ workspaces_created = 1
    /\ containers_launched = 1
    /\ ~temp_dir_exists
    /\ container_state = "removed"

(***************************************************************************)
(* C4                                                                      *)
(***************************************************************************)
\* C4 (as stated): whenever the bounded wait returned an exit status, status 0
\* yields Success (success=true) with the captured log as output and every
\* other status, or a wait result without status, yields Failed
\* (success=false); the log content never changes the verdict.
C4_ExitStatusDecidesVerdict ==
    (pc = "done" /\ exit_code # <<>>) =>
        /\ exit_code[1] = 0 =>
              /\ Verdict(result) = "Success"
              /\ result.success
              /\ \E logs \in LogTexts : result.output = <<logs>>
        /\ exit_code[1] # 0 =>
              /\ Verdict(result) = "Failed"
              /\ ~result.success

\* C4 (amended): whenever the bounded wait returned an exit status and the
\* log was then retrieved and decoded, status 0 yields Success (success=true)
\* and every other status, or a wait result without status, yields Failed
\* (success=false), with the captured log as output, whatever the log says;
\* when retrieving or decoding the log raises, the verdict is
\* InfrastructureError whatever the status.
C4_ExitStatusDecidesVerdictOnceLogged ==
    (pc = "done" /\ exit_code # <<>>) =>
        /\ Count("logs") = 1
        /\ exc = <<>> =>
              /\ \E logs \in LogTexts : result.output = <<logs>>
              /\ result.success <=> exit_code[1] = 0
              /\ Verdict(result) = IF exit_code[1] = 0 THEN "Success" ELSE "Failed"
        /\ exc # <<>> =>
              /\ Verdict(result) = "InfrastructureError"
              /\ ~result.success

\* a run that exited non-zero although its log reads OK
C4_Witness ==
    /\ pc = "done"
    /\ exit_code = <<2>>
    /\ result.output = <<"OK">>
    /\ Verdict(result) = "Failed"

(***************************************************************************)
(* C5                                                                      *)
(***************************************************************************)
\* C5: an execution that has not completed after 300 seconds (single file)
\* or 600 seconds (project) returns TimedOut without waiting further and
\* without retrieving logs, even if it would have exited 0 later; the
\* container is stopped and removed before the request returns.
C5_TimedOutThenRemoved ==
    (pc = "done" /\ containers_launched = 1 /\ duration > WaitTimeout(mode)) =>
        /\ Verdict(result) = "TimedOut"
        /\ waited <= WaitTimeout(mode)
        /\ Count("logs") = 0
        /\ container_state = "removed"

(***************************************************************************)
(* C6                                                                      *)
(***************************************************************************)
NothingAllocated ==
    /\ calls = <<>>
    /\ workspaces_created = 0
    /\ containers_launched = 0
    /\ ~temp_dir_exists

ClientInputError ==
    /\ pc = "done"
    /\ outcome = "raised"
    /\ raised.kind = "HTTPException"
    /\ raised.status_code = 400

\* the mode a table entry belongs to: java-project names the project image
BelongsTo(lang, m) ==
    IF lang = "java-project" THEN m = "project"
    ELSE IF lang = "java" THEN m = "single"
    ELSE TRUE

\* C6 (as stated): a language identifier outside {python, javascript, java,
\* java-project} fails in either mode with a client-input error before any
\* image query, fetch, workspace creation or launch; every identifier inside
\* the table passes the validation in the mode it belongs to.
C6_TableDecidesValidation ==
    pc # "idle" =>
        /\ language \notin DOMAIN DOCKER_IMAGES => (ClientInputError /\ NothingAllocated)
        /\ (language \in DOMAIN DOCKER_IMAGES /\ BelongsTo(language, mode)) =>
              ~(outcome = "raised" /\ calls = <<>>)

\* C6 (amended): a language identifier outside the table fails in either mode
\* with a client-input error before any image query, fetch, workspace
\* creation or launch; python, javascript and java pass the validation in
\* both modes; java-project passes in neither: project mode rejects it with
\* the client-input error and single-file mode fails on its missing run
\* command with a KeyError, both before any side effect.
C6_ValidationPerMode ==
    pc # "idle" =>
        /\ language \notin DOMAIN DOCKER_IMAGES => (ClientInputError /\ NothingAllocated)
        /\ language \in {"python", "javascript", "java"} =>
              /\ ~(outcome = "raised" /\ calls = <<>>)
              /\ pc = "done" => Count("images.get") = 1
        /\ (language = "java-project" /\ mode = "project") =>
              (ClientInputError /\ NothingAllocated)
        /\ (language = "java-project" /\ mode = "single") =>
              /\ pc = "done"
              /\ outcome = "raised"
              /\ raised.kind = "KeyError"
              /\ NothingAllocated

\* an identifier outside the table, rejected in single-file mode with nothing
\* allocated
C6_Witness ==
    /\ language = "ruby"
    /\ mode = "single"
    /\ ClientInputError
    /\ NothingAllocated


(***************************************************************************)
(* C7                                                                      *)
(***************************************************************************)
\* C7: once the workspace directory has been created, an exception raised by
\* a later step (writing the staged files, saving the archive, the
\* normalizer, launching the container, retrieving logs) makes the request
\* return an InfrastructureError verdict carrying the exception message, and
\* no exception is raised out of the handler.
C7_ExceptionBecomesVerdict ==
    /\ workspaces_created = 1 => (outcome # "raised" /\ raised = NoRaise)
    /\ (exc # <<>> /\ pc \in {"finally", "finally_rmtree", "done"}) =>
          /\ Verdict(result) = "InfrastructureError"
          /\ ~result.success
          /\ Len(result.output) = 1 + Len(exc)
          /\ SubSeq(result.output, 2, Len(result.output)) = exc
    /\ (exc # <<>> /\ pc = "done") => outcome = "returned"

\* the launch raised after the workspace was staged, and the request returned
C7_Witness ==
    /\ pc = "done"
    /\ workspaces_created = 1
    /\ Count("containers.run") = 1
    /\ containers_launched = 0
    /\ exc # <<>>
    /\ Verdict(result) = "InfrastructureError"

(***************************************************************************)
(* C8                                                                      *)
(***************************************************************************)
\* C8: when the image is not present locally and the blocking fetch succeeds,
\* the request returns the ImagePulling verdict (success=false) and launches
\* no container; a container is launched only in a request that found the
\* image already present.
C8_PullReturnsImagePulling ==
    /\ Count("images.pull") > 0 => containers_launched = 0
    /\ (pc = "done" /\ Count("images.pull") > 0 /\ image_name \in images) =>
          /\ outcome = "returned"
          /\ Verdict(result) = "ImagePulling"
          /\ ~result.success
          /\ Count("containers.run") = 0
    /\ containers_launched > 0 =>
          /\ calls[1] = "images.get"
          /\ Count("images.pull") = 0
          /\ image_name \in images

\* a request that fetched its image and returned ImagePulling
C8_Witness ==
    /\ pc = "done"
    /\ Count("images.pull") = 1
    /\ image_name \in images
    /\ Verdict(result) = "ImagePulling"

(***************************************************************************)
(* C9                                                                      *)
(***************************************************************************)
\* C9: a Java project request whose extracted archive has no pom.xml at its
\* root returns the InvalidProject verdict and no container is launched.
C9_NoPomInvalidProject ==
    (pc = "done" /\ mode = "project" /\ language = "java" /\ Extracted
        /\ "pom.xml" \notin archive) =>
        /\ outcome = "returned"
        /\ result.summary = "Invalid Project"
        /\ Verdict(result) = "InvalidProject"
        /\ Count("containers.run") = 0
        /\ containers_launched = 0

\* an archive with a source tree but no pom.xml, rejected
C9_Witness ==
    /\ pc = "done"
    /\ mode = "project"
    /\ language = "java"
    /\ Extracted
    /\ archive = {"src/main/java"}
    /\ Verdict(result) = "InvalidProject"

(***************************************************************************)
(* C10                                                                     *)
(***************************************************************************)
\* C10: a JavaScript project request whose extracted archive has no
\* package.json and is not a static front-end project (index.html together
\* with script.js) returns the InvalidProject verdict, not
\* InfrastructureError, and no container is launched.
C10_NoManifestInvalidProject ==
    (pc = "done" /\ mode = "project" /\ language = "javascript" /\ Extracted
        /\ "package.json" \notin archive /\ ~IsFrontendProject(archive)) =>
        /\ Verdict(result) = "InvalidProject"
        /\ containers_launched = 0


(***************************************************************************)
(* C11                                                                     *)
(***************************************************************************)
\* the archive could not be opened or extracted
ExtractionFailed == mode = "project" /\ zip_error # <<>>

\* C11 (as stated): a project request whose archive cannot be opened or
\* extracted returns an InvalidProject-class verdict rather than
\* InfrastructureError, is rejected only after the workspace was staged,
\* launches no container, and leaves no workspace behind.
C11_BadArchiveInvalidNoWorkspaceLeft ==
    (pc = "done" /\ ExtractionFailed) =>
        /\ outcome = "returned"
        /\ Verdict(result) = "InvalidProject"
        /\ workspaces_created = 1
        /\ calls[2] = "mkdir" /\ calls[3] = "write" /\ calls[4] = "extractall"
        /\ containers_launched = 0
        /\ ~temp_dir_exists

\* C11 (amended): such a request returns an InvalidProject-class verdict
\* ("ZIP Error") carrying the extraction error, is rejected only after the
\* workspace was created and the archive saved into it, launches no
\* container, and attempts the delete of the workspace exactly once before
\* returning; the workspace is left behind only when that delete failed.
C11_BadArchiveInvalidDeleteAttempted ==
    (pc = "done" /\ ExtractionFailed) =>
        /\ outcome = "returned"
        /\ result.summary = "ZIP Error"
        /\ Verdict(result) = "InvalidProject"
        /\ result.output[Len(result.output)] = zip_error[1]
        /\ workspaces_created = 1
        /\ calls[2] = "mkdir" /\ calls[3] = "write" /\ calls[4] = "extractall"
        /\ Count("containers.run") = 0
        /\ containers_launched = 0
        /\ Count("rmtree") = 1
        /\ (temp_dir_exists <=> "rmtree" \in swallowed)

\* a request with a corrupt archive, returned, its workspace deleted
C11_Witness ==
    /\ pc = "done"
    /\ ExtractionFailed
    /\ Verdict(result) = "InvalidProject"
    /\ "project.zip" \notin files
    /\ ~temp_dir_exists


(***************************************************************************)
(* Claims about sanitize_java_code, checked under SpecSanitizer            *)
(***************************************************************************)
NonEmpty(line) == line # <<>>

\* text.split("\n"): the text cut at each "\n", an empty last piece included
RECURSIVE SplitOnNewline(_)
SplitOnNewline(text) ==
    IF FirstNewline(text) = 0 THEN <<text>>
    ELSE <<SubSeq(text, 1, FirstNewline(text) - 1)>>
            \o SplitOnNewline(SubSeq(text, FirstNewline(text) + 1, Len(text)))

\* the position at which a line is first seen in a list of lines
FirstSeen(lines, line) ==
    CHOOSE i \in DOMAIN lines :
        lines[i] = line /\ \A j \in 1..(i - 1) : lines[j] # line

\* C12 (as stated): sanitize_java_code is idempotent, sanitizing its own
\* output returns that output
C12_SanitizeIdempotent ==
    sanitizer_pc = "twice" => resanitized = sanitized

\* C12 (amended): sanitizing the sanitizer's output keeps its import lines
\* and its non-empty lines, in order; the text itself is returned unchanged
\* exactly when the source has no line besides import, package and empty
\* lines, otherwise the second application differs (it adds an empty line)
C12_SanitizeStableUpToEmptyLines ==
    sanitizer_pc = "twice" =>
        LET once == SplitLines(sanitized)
            twice == SplitLines(resanitized)
            code_body == SelectSeq(SplitLines(source_code), IsCodeBody)
        IN /\ SelectSeq(twice, IsImport) = SelectSeq(once, IsImport)
           /\ SelectSeq(twice, NonEmpty) = SelectSeq(once, NonEmpty)
           /\ \A i \in DOMAIN twice : ~IsPackage(twice[i])
           /\ Len(twice) <= Len(once) + 1
           /\ (resanitized = sanitized
                 <=> \A i \in DOMAIN code_body : code_body[i] = <<>>)

C12_Witness ==
    /\ sanitizer_pc = "twice"
    /\ \E i \in DOMAIN SplitLines(source_code) : IsImport(SplitLines(source_code)[i])
    /\ \E i \in DOMAIN SplitLines(source_code) :
          /\ IsCodeBody(SplitLines(source_code)[i])
          /\ SplitLines(source_code)[i] # <<>>
    /\ resanitized # sanitized
    /\ Len(SplitLines(resanitized)) = Len(SplitLines(sanitized)) + 1

FlatRepairDone ==
    /\ mode = "project"
    /\ language = "java"
    /\ "pom.xml" \in archive
    /\ "src/main/java" \notin archive
    /\ pc = "containers_run"

\* where the claim puts a root-level file: the directory of its package
\* under src/main/java, named after its public class if it has one
ExpectedDir(f) == <<"src", "main", "java">> \o JavaSource(f).package_match
ExpectedName(f) ==
    IF JavaSource(f).class_match # <<>>
    THEN <<JavaSource(f).class_match[1], ".java">>
    ELSE <<JavaSource(f).stem, ".java">>

Processed == RootJavaFiles(archive) \ java_failed

\* a failure on one file is never the failure of the request
FileFailuresSkipped ==
    (java_failed # {}) =>
        /\ pc # "normalize"
        /\ pc = "except" => Count("containers.run") = 1
        /\ pc = "done" => outcome = "returned"

\* C14 (as stated): after the repair every root-level .java file that was
\* processed without failure is under src/main/java at the path its
\* package and public class give and no longer at the root, and a failed
\* file stops neither the other files nor the launch
C14_EveryFileEndsUpAtItsTarget ==
    /\ FlatRepairDone =>
          \A f \in Processed :
             /\ f \notin files
             /\ [dir |-> ExpectedDir(f), name |-> ExpectedName(f), origin |-> f] \in java_tree
    /\ FileFailuresSkipped

\* C14 (amended): every file processed without failure has left the root
\* and its target path holds a file moved there by the repair: that file
\* itself unless another processed file has the same target path, in which
\* case one of them has replaced the others; failed files stay at the root,
\* and stop neither the other files nor the launch
C14_TargetsFilledLaterMoveWins ==
    /\ FlatRepairDone =>
          /\ \A f \in Processed :
                /\ f \notin files
                /\ \E t \in java_tree :
                      /\ t.dir = ExpectedDir(f)
                      /\ t.name = ExpectedName(f)
                      /\ t.origin \in Processed
                      /\ ExpectedDir(t.origin) = t.dir
                      /\ ExpectedName(t.origin) = t.name
                /\ (\A g \in Processed \ {f} :
                        ExpectedDir(g) # ExpectedDir(f) \/ ExpectedName(g) # ExpectedName(f))
                      => [dir |-> ExpectedDir(f), name |-> ExpectedName(f), origin |-> f]
                            \in java_tree
          /\ \A t \in java_tree : \A u \in java_tree :
                (t.dir = u.dir /\ t.name = u.name) => t = u
          /\ \A t \in java_tree : t.origin \in Processed
          /\ \A f \in java_failed : f \in files
          /\ "src/main/java" \in files
    /\ FileFailuresSkipped

C14_Witness ==
    /\ FlatRepairDone
    /\ java_failed = {"Main.java"}
    /\ [dir |-> <<"src", "main", "java">>, name |-> <<"Main", ".java">>, origin |-> "App.java"]
          \in java_tree
    /\ [dir |-> <<"src", "main", "java", "com", "acme", "util">>, name |-> <<"Util", ".java">>,
        origin |-> "Util.java"] \in java_tree
    /\ files = {"project.zip", "pom.xml", "src/main/java", "Main.java"}


(***************************************************************************)
(* Claims about the Python project normalizer, checked under Spec          *)
(***************************************************************************)
\* the archive entries whose file name matches test_*.py or *_test.py
ArchiveTestModules(entries) ==
    entries \cap {"test_app.py", "app_test.py", "tests/test_app.py"}

PythonNormalized ==
    /\ mode = "project"
    /\ language = "python"
    /\ pc = "containers_run"

\* C15 (as stated): in a Python project request the smoke test
\* test_smoke_generated.py is written and the command runs exactly that
\* module if and only if the archive holds no test module; with a test
\* module in the archive nothing is written and the command is plain pytest
C15_SmokeTestIffNoTestModule ==
    PythonNormalized =>
        /\ ("test_smoke_generated.py" \in files) <=> (ArchiveTestModules(archive) = {})
        /\ (project_commands[Len(project_commands)] = "pytest test_smoke_generated.py")
              <=> (ArchiveTestModules(archive) = {})
        /\ (ArchiveTestModules(archive) # {}) =>
              project_commands[Len(project_commands)] = "pytest"


(***************************************************************************)
(* Claims about concurrent requests, checked under SpecWorkers             *)
(***************************************************************************)
InFlight(p) == worker_dir[p] # <<>>

\* C16: two requests in flight at the same time never have the same
\* workspace directory, and the directory of a request in flight is there
\* until that request deletes it itself
C16_ConcurrentWorkspacesDistinct ==
    /\ \A p \in Pids : \A q \in Pids :
          (p # q /\ InFlight(p) /\ InFlight(q)) => worker_dir[p] # worker_dir[q]
    /\ \A p \in Pids : InFlight(p) => worker_dir[p] \in tmp_dirs

C16_Witness ==
    /\ \A p \in Pids : InFlight(p)
    /\ \A p \in Pids : \A q \in Pids :
          /\ worker_dir[p][1] = worker_dir[q][1]
          /\ worker_dir[p][3] = worker_dir[q][3]
    /\ Cardinality({worker_dir[p] : p \in Pids}) = Cardinality(Pids)


(***************************************************************************)
(* Claims about the order of the steps of one request, checked under Spec  *)
(***************************************************************************)
\* the step an external call belongs to; the first mkdir creates the
\* workspace, a later one is the normalizer's
StepOfCall(i) ==
    CASE calls[i] \in {"images.get", "images.pull"} -> "resolve"
      [] calls[i] = "mkdir" /\ (\A j \in 1..(i - 1) : calls[j] # "mkdir") -> "workspace"
      [] calls[i] \in {"mkdir", "write", "extractall"} -> "stage"
      [] calls[i] = "containers.run" -> "launch"
      [] calls[i] = "wait" -> "wait"
      [] calls[i] = "logs" -> "classify"
      [] calls[i] \in {"stop", "remove", "rmtree"} -> "cleanup"

RankIn(order, step) == CHOOSE n \in DOMAIN order : order[n] = step

\* the calls made so far follow the given order of steps
CallsFollow(order) ==
    \A i \in DOMAIN calls : \A j \in DOMAIN calls :
        i < j => RankIn(order, StepOfCall(i)) <= RankIn(order, StepOfCall(j))

\* every step after workspace creation is followed by the cleanup
CleanupCoversWorkspace ==
    (pc = "done" /\ workspaces_created > 0) =>
        /\ outcome = "returned"
        /\ Count("rmtree") = 1
        /\ calls[Len(calls)] = "rmtree"

\* C17 (as stated): workspace creation, then staging and normalization,
\* then image resolution, then launch, wait, classification and cleanup;
\* every step after workspace creation is covered by the cleanup
C17_WorkspaceThenImageThenRun ==
    /\ CallsFollow(<<"workspace", "stage", "resolve", "launch", "wait", "classify", "cleanup">>)
    /\ CleanupCoversWorkspace

\* C17 (amended): the image is resolved first, before any workspace
\* exists, then the workspace is created, staged and normalized, then the
\* container is launched and waited on, the verdict classified and the
\* cleanup run; a request that returns at image resolution has created no
\* workspace, and every step after workspace creation is covered by the
\* cleanup
C17_ImageThenWorkspaceThenRun ==
    /\ CallsFollow(<<"resolve", "workspace", "stage", "launch", "wait", "classify", "cleanup">>)
    /\ CleanupCoversWorkspace
    /\ (workspaces_created > 0 \/ pc \in {"mkdir"}) =>
          /\ calls[1] = "images.get"
          /\ image_name \in images
    /\ (pc = "done" /\ calls # <<>> /\ calls[Len(calls)] \in {"images.get", "images.pull"}) =>
          workspaces_created = 0

C17_Witness ==
    /\ pc = "done"
    /\ mode = "project"
    /\ language = "java"
    /\ calls = <<"images.get", "mkdir", "write", "extractall", "mkdir", "containers.run",
                 "wait", "logs", "stop", "remove", "rmtree">>
    /\ Verdict(result) = "Success"


(***************************************************************************)
(* Claims about failures of the container runtime, checked under Spec      *)
(***************************************************************************)
Embeds(parts, e) == \E i \in DOMAIN parts : parts[i] = e

\* the image was absent and the fetch failed: the request ended at the pull
\* and the image is still absent
FetchFailed ==
    /\ pc = "done"
    /\ calls # <<>>
    /\ calls[Len(calls)] = "images.pull"
    /\ image_name \notin images

\* the presence query itself failed: the request ended at images.get
QueryFailed ==
    /\ pc = "done"
    /\ calls = <<"images.get">>

\* the runtime failed at or after the launch and the error reached the handler
FailedAfterLaunchCall ==
    /\ pc = "done"
    /\ exc # <<>>
    /\ Count("containers.run") = 1

\* the wait call was made and failed before any time had passed
WaitFailedEarly ==
    /\ pc = "done"
    /\ Count("wait") = 1
    /\ waited = 0

\* C18 (as stated): a failed fetch returns an InfrastructureError verdict
\* whose summary embeds the fetch error; one fetch, no workspace, no container
C18_FetchErrorInSummary ==
    FetchFailed =>
        /\ outcome = "returned"
        /\ Verdict(result) = "InfrastructureError"
        /\ \E e \in ErrorMessages : Embeds(<<result.summary>>, e)
        /\ Count("images.pull") = 1
        /\ workspaces_created = 0
        /\ containers_launched = 0

\* C18 (amended): a failed fetch returns an InfrastructureError verdict
\* with the fixed summary "Failed to Download Environment" and the fetch
\* error embedded in its output; one fetch, no workspace, no container
C18_FetchErrorInOutput ==
    FetchFailed =>
        /\ outcome = "returned"
        /\ ~result.success
        /\ Verdict(result) = "InfrastructureError"
        /\ result.summary = "Failed to Download Environment"
        /\ \E e \in ErrorMessages : Embeds(result.output, e)
        /\ calls = <<"images.get", "images.pull">>
        /\ Count("images.pull") = 1
        /\ workspaces_created = 0
        /\ containers_launched = 0
        /\ ~temp_dir_exists
        /\ ~container

C18_Witness ==
    /\ FetchFailed
    /\ mode = "project"
    /\ language = "java"
    /\ result.output = <<"Failed to pull Docker image. Error: ", "connection refused">>
    /\ images = {}

\* C19 (as stated): when the runtime fails for a reason other than a
\* missing image, at the presence query or later, the request returns an
\* InfrastructureError verdict and raises nothing
C19_RuntimeFailureBecomesVerdict ==
    (QueryFailed \/ FailedAfterLaunchCall) =>
        /\ outcome = "returned"
        /\ Verdict(result) = "InfrastructureError"

\* C19 (amended): a failure of the presence query is raised to the caller
\* as HTTP 500 "Docker error: ..." with no verdict, workspace or container;
\* a failed fetch and a failure at launch or at the log read return an
\* InfrastructureError verdict carrying the message; a failure of the wait
\* returns the TimedOut verdict; failures of stop and remove are ignored
C19_QueryFailureRaisedLaterFailuresReturned ==
    /\ QueryFailed =>
          /\ outcome = "raised"
          /\ \E e \in ErrorMessages : raised = HTTPException(500, <<"Docker error: ", e>>)
          /\ result = NoResult
          /\ workspaces_created = 0
          /\ containers_launched = 0
    /\ FetchFailed =>
          /\ outcome = "returned"
          /\ Verdict(result) = "InfrastructureError"
    /\ FailedAfterLaunchCall =>
          /\ outcome = "returned"
          /\ Verdict(result) = "InfrastructureError"
          /\ result.summary = "Docker Execution Error"
          /\ Embeds(result.output, exc[Len(exc)])
    /\ WaitFailedEarly =>
          /\ outcome = "returned"
          /\ Verdict(result) = "TimedOut"
    /\ (pc = "done" /\ swallowed # {}) => outcome = "returned"

C19_Witness ==
    /\ QueryFailed
    /\ mode = "single"
    /\ outcome = "raised"
    /\ raised.status_code = 500
    /\ raised.detail = <<"Docker error: ", "connection refused">>

\* C20: the TimedOut verdict is returned only when the wait exceeded its
\* bound; a wait that fails earlier for another reason gives
\* InfrastructureError
C20_TimedOutOnlyWhenBoundExceeded ==
    /\ (pc = "done" /\ outcome = "returned" /\ Verdict(result) = "TimedOut") =>
          /\ duration > WaitTimeout(mode)
          /\ waited = WaitTimeout(mode)
    /\ WaitFailedEarly =>
          /\ outcome = "returned"
          /\ Verdict(result) = "InfrastructureError"


(***************************************************************************)
(* Claims about single-file staging, checked under Spec                    *)
(***************************************************************************)
\* the stager has written its files and the container is about to be launched
SingleStaged ==
    /\ mode = "single"
    /\ pc = "containers_run"

TextOf(name) == (CHOOSE c \in contents : c[1] = name)[2]

\* C21 (as stated): in single-file mode, for python, javascript and java,
\* exactly two files are in the workspace before launch, one holding the
\* submitted source and one the test source; for java the test source
\* written is the sanitizer's output
C21_TwoFilesStaged ==
    SingleStaged =>
        /\ Cardinality(files) = 2
        /\ \E c \in contents : c[2] = user_code
        /\ \E c \in contents :
              c[2] = IF language = "java" THEN sanitize_java_code(test_code) ELSE test_code

\* C21 (amended): for python and javascript exactly two files are written,
\* user_code.py / user_code.js with the submitted source and test_code.py /
\* test_code.js with the test source as submitted; for java exactly one
\* file is written, TestRunner.java with the sanitizer's output of the
\* test source, and the submitted source is not written at all
C21_TwoFilesOrTestRunnerOnly ==
    SingleStaged =>
        /\ language \in {"python", "javascript", "java"}
        /\ files = {c[1] : c \in contents}
        /\ Cardinality(contents) = Cardinality(files)
        /\ language = "python" =>
              /\ files = {"user_code.py", "test_code.py"}
              /\ TextOf("user_code.py") = user_code
              /\ TextOf("test_code.py") = test_code
        /\ language = "javascript" =>
              /\ files = {"user_code.js", "test_code.js"}
              /\ TextOf("user_code.js") = user_code
              /\ TextOf("test_code.js") = test_code
        /\ language = "java" =>
              /\ files = {"TestRunner.java"}
              /\ TextOf("TestRunner.java") = sanitize_java_code(test_code)
              /\ \A c \in contents : c[2] # user_code

C21_Witness ==
    /\ SingleStaged
    /\ language = "java"
    /\ test_code = <<"class X {}", "\n", "import ", "a", ";", "\n", "package ", "p", ";">>
    /\ contents = {<<"TestRunner.java", <<"import ", "a", ";", "\n", "\n", "class X {}">>>>}


(***************************************************************************)
(* Claims about the Python run command, checked under Spec                 *)
(***************************************************************************)
\* the files named by the 'pip install -r <file>' steps of the run command
InstalledFrom ==
    { project_commands[i + 1] :
        i \in { j \in 1..(Len(project_commands) - 1) : project_commands[j] = "pip install -r " } }

\* the requirements files of the archive that are not empty
NonEmptyRequirements == (archive \cap {"requirements.txt", "requirement.txt"}) \ empty_files

\* C22 (as stated): the run command has a 'pip install -r <file>' step if
\* and only if a requirements file exists under one of the two names and
\* is non-empty, and <file> is that file, for every combination of the two
\* files being absent, empty or non-empty
C22_InstallIffSomeNonEmptyRequirements ==
    PythonNormalized =>
        /\ (InstalledFrom # {}) <=> (NonEmptyRequirements # {})
        /\ InstalledFrom \subseteq NonEmptyRequirements

\* C22 (amended): one file is selected, requirements.txt when it exists
\* and otherwise requirement.txt; the run command has a 'pip install -r
\* <file>' step if and only if the selected file is non-empty, and <file>
\* is the selected file; an empty requirements.txt hides a non-empty
\* requirement.txt
C22_InstallIffSelectedRequirementsNonEmpty ==
    PythonNormalized =>
        /\ ("requirements.txt" \in archive) =>
              InstalledFrom = IF "requirements.txt" \in empty_files
                              THEN {} ELSE {"requirements.txt"}
        /\ ("requirements.txt" \notin archive /\ "requirement.txt" \in archive) =>
              InstalledFrom = IF "requirement.txt" \in empty_files
                              THEN {} ELSE {"requirement.txt"}
        /\ (archive \cap {"requirements.txt", "requirement.txt"} = {}) => InstalledFrom = {}
        /\ Cardinality({ j \in DOMAIN project_commands : project_commands[j] = "pip install -r " }) <= 1
        /\ project_commands[1] = "pip install pytest"

C22_Witness ==
    /\ PythonNormalized
    /\ {"requirements.txt", "requirement.txt"} \subseteq archive
    /\ empty_files = {"requirements.txt"}
    /\ InstalledFrom = {}
    /\ ~(\E j \in DOMAIN project_commands : project_commands[j] = "pip install -r ")


(***************************************************************************)
(* Claims about the JavaScript project normalizer, checked under Spec      *)
(***************************************************************************)
JavascriptNormalized ==
    /\ mode = "project"
    /\ language = "javascript"
    /\ pc = "containers_run"

\* the archive has the static front-end shape and no manifest
FrontendWithoutManifest ==
    /\ {"index.html", "script.js"} \subseteq archive
    /\ "package.json" \notin archive

\* C23: package.json and test_runner.js are synthesized exactly when
\* index.html and script.js both exist and package.json does not; when the
\* archive carries a package.json the normalizer writes nothing and that
\* package.json stays as the author wrote it
C23_HarnessOnlyForFrontendWithoutManifest ==
    /\ JavascriptNormalized =>
          /\ (<<"package.json", pkg_json>> \in contents) <=> FrontendWithoutManifest
          /\ ("test_runner.js" \in files) <=> FrontendWithoutManifest
          /\ FrontendWithoutManifest =>
                /\ <<"test_runner.js", test_runner>> \in contents
                /\ files = archive \cup {"project.zip", "package.json", "test_runner.js"}
                /\ Count("write") = 2
          /\ ("package.json" \in archive) =>
                /\ files = archive \cup {"project.zip"}
                /\ contents = ExtractedContents(archive) \cup {<<"project.zip", UploadedArchive>>}
                /\ Count("write") = 1
    /\ (mode = "project" /\ language = "javascript" /\ "package.json" \in archive
          /\ "package.json" \in files) =>
          /\ TextOf("package.json") = <<"member of the archive", "package.json">>
          /\ <<"package.json", pkg_json>> \notin contents
          /\ "test_runner.js" \notin files

C23_Witness ==
    /\ JavascriptNormalized
    /\ archive = {"package.json", "index.html", "script.js"}
    /\ files = {"project.zip", "package.json", "index.html", "script.js"}
    /\ <<"package.json", <<"member of the archive", "package.json">>>> \in contents


(***************************************************************************)
(* Claims about generate_with_retry, checked under SpecRetry               *)
(***************************************************************************)
TransportOrStatusFailure(posted) == posted.kind \in {"RequestError", "HTTPStatusError"}

\* C24: at most 3 requests are sent; the first success is returned and
\* nothing is sent after it; after a failed attempt that is not the last
\* the function sleeps, 1 second and then 2; after the third transport or
\* HTTP-status failure the last error is raised without a sleep; the
\* function ends only with a response returned or an error raised
C24_AtMostThreeAttemptsBackoffOneTwo ==
    /\ Len(sent) <= 3
    /\ \A i \in 1..(Len(sent) - 1) : TransportOrStatusFailure(sent[i])
    /\ retry_pc = "returned" =>
          /\ sent # <<>>
          /\ sent[Len(sent)].kind = "ok"
          /\ response = <<sent[Len(sent)].detail>>
          /\ error = <<>>
          /\ Len(slept) = Len(sent) - 1
    /\ retry_pc = "raised" =>
          /\ sent # <<>>
          /\ sent[Len(sent)].kind # "ok"
          /\ error = <<sent[Len(sent)]>>
          /\ response = <<>>
          /\ Len(slept) = Len(sent) - 1
          /\ TransportOrStatusFailure(sent[Len(sent)]) => Len(sent) = 3
    /\ retry_pc = "post" => Len(slept) = Len(sent)
    /\ retry_pc = "sleep" =>
          /\ Len(sent) < 3
          /\ Len(slept) = Len(sent) - 1
          /\ TransportOrStatusFailure(sent[Len(sent)])
    /\ \A i \in DOMAIN slept : slept[i] = IF i = 1 THEN 1 ELSE 2
    /\ Len(slept) <= 2

C24_Witness ==
    /\ retry_pc = "raised"
    /\ Len(sent) = 3
    /\ slept = <<1, 2>>
    /\ error = <<[kind |-> "HTTPStatusError", detail |-> "503"]>>
    /\ sent[1].kind = "RequestError"

====
